---------------------------- MODULE Spec2Model ----------------------------
(***************************************************************************)
(* Model of verify_pr_lables.py: one run of the label gate of a pull       *)
(* request.  A Python string is a sequence of Unicode code points, so that *)
(* split, strip, lower, int() and the regular expression search are        *)
(* computed character by character, with the character tables of the       *)
(* interpreter (Unicode 14.0.0).  The process environment and the command  *)
(* line are fixed at start; the remote pull request is read when the       *)
(* script asks for it.                                                      *)
(***************************************************************************)
EXTENDS Integers, Sequences, FiniteSets, TLC

(* --------------------------- string literals --------------------------- *)
\* "pull_request_target"
PULL_REQUEST_TARGET == <<112, 117, 108, 108, 95, 114, 101, 113, 117, 101, 115, 116, 95, 116, 97, 114, 103, 101, 116>>
\* "pull_request"
PULL_REQUEST == <<112, 117, 108, 108, 95, 114, 101, 113, 117, 101, 115, 116>>
\* "refs/pull/"
RefPrefix == <<114, 101, 102, 115, 47, 112, 117, 108, 108, 47>>
\* "/merge"
RefSuffix == <<47, 109, 101, 114, 103, 101>>
\* "no parity"
NoParity == <<110, 111, 32, 112, 97, 114, 105, 116, 121>>
GITHUB_REPOSITORY == "GITHUB_REPOSITORY"
GITHUB_REF == "GITHUB_REF"
GITHUB_EVENT_NAME == "GITHUB_EVENT_NAME"

\* The characters the script and the conversions it calls name: ',' in
\* split(','), and '+', '-', '_', '0', ' ', '?' in int().
Comma == 44
PlusSign == 43
MinusSign == 45
Underscore == 95
DigitZero == 48
Space == 32
QuestionMark == 63

\* sys.get_int_max_str_digits(): the longest digit string int() converts.
MaxStrDigits == 4300

(* ------------------------------ input sets ------------------------------ *)
\* "verify_pr_lables.py"
Prog == <<118, 101, 114, 105, 102, 121, 95, 112, 114, 95, 108, 97, 98, 108, 101, 115, 46, 112, 121>>
\* "tok"
Tok == <<116, 111, 107>>
\* "no parity,<U+001C>feature parity<U+3000>,Target Widget,a"
ValidCsv1 == <<110, 111, 32, 112, 97, 114, 105, 116, 121, 44, 28, 102, 101, 97, 116, 117, 114, 101, 32, 112, 97, 114, 105, 116, 121, 12288, 44, 84, 97, 114, 103, 101, 116, 32, 87, 105, 100, 103, 101, 116, 44, 97>>
\* "a,b"
ValidCsv2 == <<97, 44, 98>>
\* "blocked, a"
InvalidCsv1 == <<98, 108, 111, 99, 107, 101, 100, 44, 32, 97>>
\* "12"
Hint1 == <<49, 50>>
\* "<U+000B>+<U+0661>_2<U+00A0>": vertical tab, ARABIC-INDIC DIGIT ONE, no-break space
Hint2 == <<11, 43, 1633, 95, 50, 160>>
\* "1__2"
Hint3 == <<49, 95, 95, 50>>
\* "<U+001C>12": whitespace for strip() but not for int()
Hint4 == <<28, 49, 50>>
\* "x"
Fifth == <<120>>
\* "Org/Widget"
RepoWidget == <<79, 114, 103, 47, 87, 105, 100, 103, 101, 116>>
\* "org/app"
RepoApp == <<111, 114, 103, 47, 97, 112, 112>>
\* "fork/Widget"
RepoFork == <<102, 111, 114, 107, 47, 87, 105, 100, 103, 101, 116>>
\* "refs/pull/12/merge"
Ref1 == <<114, 101, 102, 115, 47, 112, 117, 108, 108, 47, 49, 50, 47, 109, 101, 114, 103, 101>>
\* "refs/heads/main"
Ref2 == <<114, 101, 102, 115, 47, 104, 101, 97, 100, 115, 47, 109, 97, 105, 110>>
\* "refs/pull//merge"
Ref3 == <<114, 101, 102, 115, 47, 112, 117, 108, 108, 47, 47, 109, 101, 114, 103, 101>>
\* "xrefs/pull/7/merge2"
Ref4 == <<120, 114, 101, 102, 115, 47, 112, 117, 108, 108, 47, 55, 47, 109, 101, 114, 103, 101, 50>>
\* "refs/pull/11...1/merge" with one digit more than int() converts
Ref5 == RefPrefix \o [i \in 1..(MaxStrDigits + 1) |-> DigitZero + 1] \o RefSuffix
\* "no parity"
LNoParity == <<110, 111, 32, 112, 97, 114, 105, 116, 121>>
\* "feature parity"
LFeature == <<102, 101, 97, 116, 117, 114, 101, 32, 112, 97, 114, 105, 116, 121>>
\* "Target Widget"
LTarget == <<84, 97, 114, 103, 101, 116, 32, 87, 105, 100, 103, 101, 116>>
\* "a"
LA == <<97>>
\* "b"
LB == <<98>>
\* "blocked"
LBlocked == <<98, 108, 111, 99, 107, 101, 100>>

\* Largest number of labels carried by the pull request.
MaxPrLabels == 2

TokenSet == {<<>>, Tok}
ValidCsvSet == {ValidCsv1, ValidCsv2, <<>>}
InvalidCsvSet == {InvalidCsv1, <<>>}
HintSet == {Hint1, Hint2, Hint3, Hint4, <<>>}
RepoEnvSet == {RepoWidget, RepoApp}
RefEnvSet == {Ref1, Ref2, Ref3, Ref4}
EventEnvSet == {PULL_REQUEST, PULL_REQUEST_TARGET}
RepoFullNames == {RepoWidget, RepoFork}
LabelNames == {LNoParity, LFeature, LTarget, LA, LB, LBlocked}

\* Command lines: the program name followed by four, five or six values.
ArgvSet ==
    {<<Prog, t, v, i, h, Fifth>> :
        t \in TokenSet, v \in ValidCsvSet, i \in InvalidCsvSet, h \in HintSet}
    \cup {<<Prog, Tok, ValidCsv2, InvalidCsv1, Hint1>>,
          <<Prog, Tok, ValidCsv2, InvalidCsv1, Hint1, Fifth, Fifth>>}

\* Environments: any of the three variables may be absent.  The reference
\* with too many digits comes in one environment, under the pull_request
\* event.
EnvNames == {GITHUB_REPOSITORY, GITHUB_REF, GITHUB_EVENT_NAME}
EnvValues(n) ==
    IF n = GITHUB_REPOSITORY THEN RepoEnvSet
    ELSE IF n = GITHUB_REF THEN RefEnvSet ELSE EventEnvSet
EnvironSet ==
    UNION {{e \in [D -> RepoEnvSet \cup RefEnvSet \cup EventEnvSet] :
                \A n \in D : e[n] \in EnvValues(n)} : D \in SUBSET EnvNames}
    \cup {[n \in EnvNames |->
               IF n = GITHUB_REPOSITORY THEN RepoWidget
               ELSE IF n = GITHUB_REF THEN Ref5 ELSE PULL_REQUEST]}

\* Label listings of a pull request: label objects with distinct names.
LabelListings ==
    UNION {{l \in [1..n -> [name : LabelNames]] :
                \A i, j \in 1..n : i # j => l[i].name # l[j].name} :
           n \in 0..MaxPrLabels}

(* --------------------------- character tables --------------------------- *)
\* A table of ranges <<first, last>> of code points.
InRanges(c, table) ==
    \E k \in DOMAIN table : table[k][1] <= c /\ c <= table[k][2]

\* [0-9] of the regular expression: the ASCII digits only.
Digits == DigitZero..(DigitZero + 9)

\* The characters str.strip() and str.split() take for whitespace
\* (str.isspace).
Whitespace ==
    {9, 10, 11, 12, 13, 28, 29, 30, 31, 32, 133, 160, 5760} \cup (8192..8202) \cup { 8232, 8233, 8239, 8287, 12288}

\* The whitespace int() removes around the number, once the string is made
\* ASCII: '\t', '\n', '\v', '\f', '\r' and ' '.
IntWhitespace == (9..13) \cup {Space}

\* The code points of the digit zero of every decimal digit system; the
\* nine that follow each are its digits one to nine.
DecimalZeros ==
    {48, 1632, 1776, 1984, 2406, 2534, 2662, 2790, 2918, 3046,
     3174, 3302, 3430, 3558, 3664, 3792, 3872, 4160, 4240, 6112,
     6160, 6470, 6608, 6784, 6800, 6992, 7088, 7232, 7248, 42528,
     43216, 43264, 43472, 43504, 43600, 44016, 65296, 66720, 68912, 69734,
     69872, 69942, 70096, 70384, 70736, 70864, 71248, 71360, 71472, 71904,
     72016, 72784, 73040, 73120, 92768, 92864, 93008, 120782, 120792, 120802,
     120812, 120822, 123200, 123632, 125264, 130032}

\* The characters with a one-character lower case other than themselves:
\* <<first, last, step, offset>> stands for first, first + step, ... up to
\* last, each lowered by adding offset.
LowerRules == <<
    <<65, 90, 1, 32>>, <<192, 214, 1, 32>>, <<216, 222, 1, 32>>, <<256, 302, 2, 1>>,
    <<306, 310, 2, 1>>, <<313, 327, 2, 1>>, <<330, 374, 2, 1>>, <<376, 376, 1, -121>>,
    <<377, 381, 2, 1>>, <<385, 385, 1, 210>>, <<386, 388, 2, 1>>, <<390, 390, 1, 206>>,
    <<391, 391, 1, 1>>, <<393, 394, 1, 205>>, <<395, 395, 1, 1>>, <<398, 398, 1, 79>>,
    <<399, 399, 1, 202>>, <<400, 400, 1, 203>>, <<401, 401, 1, 1>>, <<403, 403, 1, 205>>,
    <<404, 404, 1, 207>>, <<406, 406, 1, 211>>, <<407, 407, 1, 209>>, <<408, 408, 1, 1>>,
    <<412, 412, 1, 211>>, <<413, 413, 1, 213>>, <<415, 415, 1, 214>>, <<416, 420, 2, 1>>,
    <<422, 422, 1, 218>>, <<423, 423, 1, 1>>, <<425, 425, 1, 218>>, <<428, 428, 1, 1>>,
    <<430, 430, 1, 218>>, <<431, 431, 1, 1>>, <<433, 434, 1, 217>>, <<435, 437, 2, 1>>,
    <<439, 439, 1, 219>>, <<440, 440, 1, 1>>, <<444, 444, 1, 1>>, <<452, 452, 1, 2>>,
    <<453, 453, 1, 1>>, <<455, 455, 1, 2>>, <<456, 456, 1, 1>>, <<458, 458, 1, 2>>,
    <<459, 475, 2, 1>>, <<478, 494, 2, 1>>, <<497, 497, 1, 2>>, <<498, 500, 2, 1>>,
    <<502, 502, 1, -97>>, <<503, 503, 1, -56>>, <<504, 542, 2, 1>>, <<544, 544, 1, -130>>,
    <<546, 562, 2, 1>>, <<570, 570, 1, 10795>>, <<571, 571, 1, 1>>, <<573, 573, 1, -163>>,
    <<574, 574, 1, 10792>>, <<577, 577, 1, 1>>, <<579, 579, 1, -195>>, <<580, 580, 1, 69>>,
    <<581, 581, 1, 71>>, <<582, 590, 2, 1>>, <<880, 882, 2, 1>>, <<886, 886, 1, 1>>,
    <<895, 895, 1, 116>>, <<902, 902, 1, 38>>, <<904, 906, 1, 37>>, <<908, 908, 1, 64>>,
    <<910, 911, 1, 63>>, <<913, 929, 1, 32>>, <<931, 939, 1, 32>>, <<975, 975, 1, 8>>,
    <<984, 1006, 2, 1>>, <<1012, 1012, 1, -60>>, <<1015, 1015, 1, 1>>, <<1017, 1017, 1, -7>>,
    <<1018, 1018, 1, 1>>, <<1021, 1023, 1, -130>>, <<1024, 1039, 1, 80>>, <<1040, 1071, 1, 32>>,
    <<1120, 1152, 2, 1>>, <<1162, 1214, 2, 1>>, <<1216, 1216, 1, 15>>, <<1217, 1229, 2, 1>>,
    <<1232, 1326, 2, 1>>, <<1329, 1366, 1, 48>>, <<4256, 4293, 1, 7264>>, <<4295, 4295, 1, 7264>>,
    <<4301, 4301, 1, 7264>>, <<5024, 5103, 1, 38864>>, <<5104, 5109, 1, 8>>, <<7312, 7354, 1, -3008>>,
    <<7357, 7359, 1, -3008>>, <<7680, 7828, 2, 1>>, <<7838, 7838, 1, -7615>>, <<7840, 7934, 2, 1>>,
    <<7944, 7951, 1, -8>>, <<7960, 7965, 1, -8>>, <<7976, 7983, 1, -8>>, <<7992, 7999, 1, -8>>,
    <<8008, 8013, 1, -8>>, <<8025, 8031, 2, -8>>, <<8040, 8047, 1, -8>>, <<8072, 8079, 1, -8>>,
    <<8088, 8095, 1, -8>>, <<8104, 8111, 1, -8>>, <<8120, 8121, 1, -8>>, <<8122, 8123, 1, -74>>,
    <<8124, 8124, 1, -9>>, <<8136, 8139, 1, -86>>, <<8140, 8140, 1, -9>>, <<8152, 8153, 1, -8>>,
    <<8154, 8155, 1, -100>>, <<8168, 8169, 1, -8>>, <<8170, 8171, 1, -112>>, <<8172, 8172, 1, -7>>,
    <<8184, 8185, 1, -128>>, <<8186, 8187, 1, -126>>, <<8188, 8188, 1, -9>>, <<8486, 8486, 1, -7517>>,
    <<8490, 8490, 1, -8383>>, <<8491, 8491, 1, -8262>>, <<8498, 8498, 1, 28>>, <<8544, 8559, 1, 16>>,
    <<8579, 8579, 1, 1>>, <<9398, 9423, 1, 26>>, <<11264, 11311, 1, 48>>, <<11360, 11360, 1, 1>>,
    <<11362, 11362, 1, -10743>>, <<11363, 11363, 1, -3814>>, <<11364, 11364, 1, -10727>>, <<11367, 11371, 2, 1>>,
    <<11373, 11373, 1, -10780>>, <<11374, 11374, 1, -10749>>, <<11375, 11375, 1, -10783>>, <<11376, 11376, 1, -10782>>,
    <<11378, 11378, 1, 1>>, <<11381, 11381, 1, 1>>, <<11390, 11391, 1, -10815>>, <<11392, 11490, 2, 1>>,
    <<11499, 11501, 2, 1>>, <<11506, 11506, 1, 1>>, <<42560, 42604, 2, 1>>, <<42624, 42650, 2, 1>>,
    <<42786, 42798, 2, 1>>, <<42802, 42862, 2, 1>>, <<42873, 42875, 2, 1>>, <<42877, 42877, 1, -35332>>,
    <<42878, 42886, 2, 1>>, <<42891, 42891, 1, 1>>, <<42893, 42893, 1, -42280>>, <<42896, 42898, 2, 1>>,
    <<42902, 42920, 2, 1>>, <<42922, 42922, 1, -42308>>, <<42923, 42923, 1, -42319>>, <<42924, 42924, 1, -42315>>,
    <<42925, 42925, 1, -42305>>, <<42926, 42926, 1, -42308>>, <<42928, 42928, 1, -42258>>, <<42929, 42929, 1, -42282>>,
    <<42930, 42930, 1, -42261>>, <<42931, 42931, 1, 928>>, <<42932, 42946, 2, 1>>, <<42948, 42948, 1, -48>>,
    <<42949, 42949, 1, -42307>>, <<42950, 42950, 1, -35384>>, <<42951, 42953, 2, 1>>, <<42960, 42960, 1, 1>>,
    <<42966, 42968, 2, 1>>, <<42997, 42997, 1, 1>>, <<65313, 65338, 1, 32>>, <<66560, 66599, 1, 40>>,
    <<66736, 66771, 1, 40>>, <<66928, 66938, 1, 39>>, <<66940, 66954, 1, 39>>, <<66956, 66962, 1, 39>>,
    <<66964, 66965, 1, 39>>, <<68736, 68786, 1, 64>>, <<71840, 71871, 1, 32>>, <<93760, 93791, 1, 32>>,
    <<125184, 125217, 1, 34>>
    >>

\* The cased characters (lower case, upper case or title case).
CasedRanges == <<
    <<65, 90>>, <<97, 122>>, <<170, 170>>, <<181, 181>>, <<186, 186>>, <<192, 214>>,
    <<216, 246>>, <<248, 442>>, <<444, 447>>, <<452, 659>>, <<661, 696>>, <<704, 705>>,
    <<736, 740>>, <<837, 837>>, <<880, 883>>, <<886, 887>>, <<890, 893>>, <<895, 895>>,
    <<902, 902>>, <<904, 906>>, <<908, 908>>, <<910, 929>>, <<931, 1013>>, <<1015, 1153>>,
    <<1162, 1327>>, <<1329, 1366>>, <<1376, 1416>>, <<4256, 4293>>, <<4295, 4295>>, <<4301, 4301>>,
    <<4304, 4346>>, <<4349, 4351>>, <<5024, 5109>>, <<5112, 5117>>, <<7296, 7304>>, <<7312, 7354>>,
    <<7357, 7359>>, <<7424, 7615>>, <<7680, 7957>>, <<7960, 7965>>, <<7968, 8005>>, <<8008, 8013>>,
    <<8016, 8023>>, <<8025, 8025>>, <<8027, 8027>>, <<8029, 8029>>, <<8031, 8061>>, <<8064, 8116>>,
    <<8118, 8124>>, <<8126, 8126>>, <<8130, 8132>>, <<8134, 8140>>, <<8144, 8147>>, <<8150, 8155>>,
    <<8160, 8172>>, <<8178, 8180>>, <<8182, 8188>>, <<8305, 8305>>, <<8319, 8319>>, <<8336, 8348>>,
    <<8450, 8450>>, <<8455, 8455>>, <<8458, 8467>>, <<8469, 8469>>, <<8473, 8477>>, <<8484, 8484>>,
    <<8486, 8486>>, <<8488, 8488>>, <<8490, 8493>>, <<8495, 8500>>, <<8505, 8505>>, <<8508, 8511>>,
    <<8517, 8521>>, <<8526, 8526>>, <<8544, 8575>>, <<8579, 8580>>, <<9398, 9449>>, <<11264, 11492>>,
    <<11499, 11502>>, <<11506, 11507>>, <<11520, 11557>>, <<11559, 11559>>, <<11565, 11565>>, <<42560, 42605>>,
    <<42624, 42653>>, <<42786, 42887>>, <<42891, 42894>>, <<42896, 42954>>, <<42960, 42961>>, <<42963, 42963>>,
    <<42965, 42969>>, <<42997, 42998>>, <<43000, 43002>>, <<43824, 43866>>, <<43868, 43880>>, <<43888, 43967>>,
    <<64256, 64262>>, <<64275, 64279>>, <<65313, 65338>>, <<65345, 65370>>, <<66560, 66639>>, <<66736, 66771>>,
    <<66776, 66811>>, <<66928, 66938>>, <<66940, 66954>>, <<66956, 66962>>, <<66964, 66965>>, <<66967, 66977>>,
    <<66979, 66993>>, <<66995, 67001>>, <<67003, 67004>>, <<67456, 67456>>, <<67459, 67461>>, <<67463, 67504>>,
    <<67506, 67514>>, <<68736, 68786>>, <<68800, 68850>>, <<71840, 71903>>, <<93760, 93823>>, <<119808, 119892>>,
    <<119894, 119964>>, <<119966, 119967>>, <<119970, 119970>>, <<119973, 119974>>, <<119977, 119980>>, <<119982, 119993>>,
    <<119995, 119995>>, <<119997, 120003>>, <<120005, 120069>>, <<120071, 120074>>, <<120077, 120084>>, <<120086, 120092>>,
    <<120094, 120121>>, <<120123, 120126>>, <<120128, 120132>>, <<120134, 120134>>, <<120138, 120144>>, <<120146, 120485>>,
    <<120488, 120512>>, <<120514, 120538>>, <<120540, 120570>>, <<120572, 120596>>, <<120598, 120628>>, <<120630, 120654>>,
    <<120656, 120686>>, <<120688, 120712>>, <<120714, 120744>>, <<120746, 120770>>, <<120772, 120779>>, <<122624, 122633>>,
    <<122635, 122654>>, <<125184, 125251>>, <<127280, 127305>>, <<127312, 127337>>, <<127344, 127369>>
    >>

\* The case-ignorable characters.
CaseIgnorableRanges == <<
    <<39, 39>>, <<46, 46>>, <<58, 58>>, <<94, 94>>, <<96, 96>>, <<168, 168>>,
    <<173, 173>>, <<175, 175>>, <<180, 180>>, <<183, 184>>, <<688, 879>>, <<884, 885>>,
    <<890, 890>>, <<900, 901>>, <<903, 903>>, <<1155, 1161>>, <<1369, 1369>>, <<1375, 1375>>,
    <<1425, 1469>>, <<1471, 1471>>, <<1473, 1474>>, <<1476, 1477>>, <<1479, 1479>>, <<1524, 1524>>,
    <<1536, 1541>>, <<1552, 1562>>, <<1564, 1564>>, <<1600, 1600>>, <<1611, 1631>>, <<1648, 1648>>,
    <<1750, 1757>>, <<1759, 1768>>, <<1770, 1773>>, <<1807, 1807>>, <<1809, 1809>>, <<1840, 1866>>,
    <<1958, 1968>>, <<2027, 2037>>, <<2042, 2042>>, <<2045, 2045>>, <<2070, 2093>>, <<2137, 2139>>,
    <<2184, 2184>>, <<2192, 2193>>, <<2200, 2207>>, <<2249, 2306>>, <<2362, 2362>>, <<2364, 2364>>,
    <<2369, 2376>>, <<2381, 2381>>, <<2385, 2391>>, <<2402, 2403>>, <<2417, 2417>>, <<2433, 2433>>,
    <<2492, 2492>>, <<2497, 2500>>, <<2509, 2509>>, <<2530, 2531>>, <<2558, 2558>>, <<2561, 2562>>,
    <<2620, 2620>>, <<2625, 2626>>, <<2631, 2632>>, <<2635, 2637>>, <<2641, 2641>>, <<2672, 2673>>,
    <<2677, 2677>>, <<2689, 2690>>, <<2748, 2748>>, <<2753, 2757>>, <<2759, 2760>>, <<2765, 2765>>,
    <<2786, 2787>>, <<2810, 2815>>, <<2817, 2817>>, <<2876, 2876>>, <<2879, 2879>>, <<2881, 2884>>,
    <<2893, 2893>>, <<2901, 2902>>, <<2914, 2915>>, <<2946, 2946>>, <<3008, 3008>>, <<3021, 3021>>,
    <<3072, 3072>>, <<3076, 3076>>, <<3132, 3132>>, <<3134, 3136>>, <<3142, 3144>>, <<3146, 3149>>,
    <<3157, 3158>>, <<3170, 3171>>, <<3201, 3201>>, <<3260, 3260>>, <<3263, 3263>>, <<3270, 3270>>,
    <<3276, 3277>>, <<3298, 3299>>, <<3328, 3329>>, <<3387, 3388>>, <<3393, 3396>>, <<3405, 3405>>,
    <<3426, 3427>>, <<3457, 3457>>, <<3530, 3530>>, <<3538, 3540>>, <<3542, 3542>>, <<3633, 3633>>,
    <<3636, 3642>>, <<3654, 3662>>, <<3761, 3761>>, <<3764, 3772>>, <<3782, 3782>>, <<3784, 3789>>,
    <<3864, 3865>>, <<3893, 3893>>, <<3895, 3895>>, <<3897, 3897>>, <<3953, 3966>>, <<3968, 3972>>,
    <<3974, 3975>>, <<3981, 3991>>, <<3993, 4028>>, <<4038, 4038>>, <<4141, 4144>>, <<4146, 4151>>,
    <<4153, 4154>>, <<4157, 4158>>, <<4184, 4185>>, <<4190, 4192>>, <<4209, 4212>>, <<4226, 4226>>,
    <<4229, 4230>>, <<4237, 4237>>, <<4253, 4253>>, <<4348, 4348>>, <<4957, 4959>>, <<5906, 5908>>,
    <<5938, 5939>>, <<5970, 5971>>, <<6002, 6003>>, <<6068, 6069>>, <<6071, 6077>>, <<6086, 6086>>,
    <<6089, 6099>>, <<6103, 6103>>, <<6109, 6109>>, <<6155, 6159>>, <<6211, 6211>>, <<6277, 6278>>,
    <<6313, 6313>>, <<6432, 6434>>, <<6439, 6440>>, <<6450, 6450>>, <<6457, 6459>>, <<6679, 6680>>,
    <<6683, 6683>>, <<6742, 6742>>, <<6744, 6750>>, <<6752, 6752>>, <<6754, 6754>>, <<6757, 6764>>,
    <<6771, 6780>>, <<6783, 6783>>, <<6823, 6823>>, <<6832, 6862>>, <<6912, 6915>>, <<6964, 6964>>,
    <<6966, 6970>>, <<6972, 6972>>, <<6978, 6978>>, <<7019, 7027>>, <<7040, 7041>>, <<7074, 7077>>,
    <<7080, 7081>>, <<7083, 7085>>, <<7142, 7142>>, <<7144, 7145>>, <<7149, 7149>>, <<7151, 7153>>,
    <<7212, 7219>>, <<7222, 7223>>, <<7288, 7293>>, <<7376, 7378>>, <<7380, 7392>>, <<7394, 7400>>,
    <<7405, 7405>>, <<7412, 7412>>, <<7416, 7417>>, <<7468, 7530>>, <<7544, 7544>>, <<7579, 7679>>,
    <<8125, 8125>>, <<8127, 8129>>, <<8141, 8143>>, <<8157, 8159>>, <<8173, 8175>>, <<8189, 8190>>,
    <<8203, 8207>>, <<8216, 8217>>, <<8228, 8228>>, <<8231, 8231>>, <<8234, 8238>>, <<8288, 8292>>,
    <<8294, 8303>>, <<8305, 8305>>, <<8319, 8319>>, <<8336, 8348>>, <<8400, 8432>>, <<11388, 11389>>,
    <<11503, 11505>>, <<11631, 11631>>, <<11647, 11647>>, <<11744, 11775>>, <<11823, 11823>>, <<12293, 12293>>,
    <<12330, 12333>>, <<12337, 12341>>, <<12347, 12347>>, <<12441, 12446>>, <<12540, 12542>>, <<40981, 40981>>,
    <<42232, 42237>>, <<42508, 42508>>, <<42607, 42610>>, <<42612, 42621>>, <<42623, 42623>>, <<42652, 42655>>,
    <<42736, 42737>>, <<42752, 42785>>, <<42864, 42864>>, <<42888, 42890>>, <<42994, 42996>>, <<43000, 43001>>,
    <<43010, 43010>>, <<43014, 43014>>, <<43019, 43019>>, <<43045, 43046>>, <<43052, 43052>>, <<43204, 43205>>,
    <<43232, 43249>>, <<43263, 43263>>, <<43302, 43309>>, <<43335, 43345>>, <<43392, 43394>>, <<43443, 43443>>,
    <<43446, 43449>>, <<43452, 43453>>, <<43471, 43471>>, <<43493, 43494>>, <<43561, 43566>>, <<43569, 43570>>,
    <<43573, 43574>>, <<43587, 43587>>, <<43596, 43596>>, <<43632, 43632>>, <<43644, 43644>>, <<43696, 43696>>,
    <<43698, 43700>>, <<43703, 43704>>, <<43710, 43711>>, <<43713, 43713>>, <<43741, 43741>>, <<43756, 43757>>,
    <<43763, 43764>>, <<43766, 43766>>, <<43867, 43871>>, <<43881, 43883>>, <<44005, 44005>>, <<44008, 44008>>,
    <<44013, 44013>>, <<64286, 64286>>, <<64434, 64450>>, <<65024, 65039>>, <<65043, 65043>>, <<65056, 65071>>,
    <<65106, 65106>>, <<65109, 65109>>, <<65279, 65279>>, <<65287, 65287>>, <<65294, 65294>>, <<65306, 65306>>,
    <<65342, 65342>>, <<65344, 65344>>, <<65392, 65392>>, <<65438, 65439>>, <<65507, 65507>>, <<65529, 65531>>,
    <<66045, 66045>>, <<66272, 66272>>, <<66422, 66426>>, <<67456, 67461>>, <<67463, 67504>>, <<67506, 67514>>,
    <<68097, 68099>>, <<68101, 68102>>, <<68108, 68111>>, <<68152, 68154>>, <<68159, 68159>>, <<68325, 68326>>,
    <<68900, 68903>>, <<69291, 69292>>, <<69446, 69456>>, <<69506, 69509>>, <<69633, 69633>>, <<69688, 69702>>,
    <<69744, 69744>>, <<69747, 69748>>, <<69759, 69761>>, <<69811, 69814>>, <<69817, 69818>>, <<69821, 69821>>,
    <<69826, 69826>>, <<69837, 69837>>, <<69888, 69890>>, <<69927, 69931>>, <<69933, 69940>>, <<70003, 70003>>,
    <<70016, 70017>>, <<70070, 70078>>, <<70089, 70092>>, <<70095, 70095>>, <<70191, 70193>>, <<70196, 70196>>,
    <<70198, 70199>>, <<70206, 70206>>, <<70367, 70367>>, <<70371, 70378>>, <<70400, 70401>>, <<70459, 70460>>,
    <<70464, 70464>>, <<70502, 70508>>, <<70512, 70516>>, <<70712, 70719>>, <<70722, 70724>>, <<70726, 70726>>,
    <<70750, 70750>>, <<70835, 70840>>, <<70842, 70842>>, <<70847, 70848>>, <<70850, 70851>>, <<71090, 71093>>,
    <<71100, 71101>>, <<71103, 71104>>, <<71132, 71133>>, <<71219, 71226>>, <<71229, 71229>>, <<71231, 71232>>,
    <<71339, 71339>>, <<71341, 71341>>, <<71344, 71349>>, <<71351, 71351>>, <<71453, 71455>>, <<71458, 71461>>,
    <<71463, 71467>>, <<71727, 71735>>, <<71737, 71738>>, <<71995, 71996>>, <<71998, 71998>>, <<72003, 72003>>,
    <<72148, 72151>>, <<72154, 72155>>, <<72160, 72160>>, <<72193, 72202>>, <<72243, 72248>>, <<72251, 72254>>,
    <<72263, 72263>>, <<72273, 72278>>, <<72281, 72283>>, <<72330, 72342>>, <<72344, 72345>>, <<72752, 72758>>,
    <<72760, 72765>>, <<72767, 72767>>, <<72850, 72871>>, <<72874, 72880>>, <<72882, 72883>>, <<72885, 72886>>,
    <<73009, 73014>>, <<73018, 73018>>, <<73020, 73021>>, <<73023, 73029>>, <<73031, 73031>>, <<73104, 73105>>,
    <<73109, 73109>>, <<73111, 73111>>, <<73459, 73460>>, <<78896, 78904>>, <<92912, 92916>>, <<92976, 92982>>,
    <<92992, 92995>>, <<94031, 94031>>, <<94095, 94111>>, <<94176, 94177>>, <<94179, 94180>>, <<110576, 110579>>,
    <<110581, 110587>>, <<110589, 110590>>, <<113821, 113822>>, <<113824, 113827>>, <<118528, 118573>>, <<118576, 118598>>,
    <<119143, 119145>>, <<119155, 119170>>, <<119173, 119179>>, <<119210, 119213>>, <<119362, 119364>>, <<121344, 121398>>,
    <<121403, 121452>>, <<121461, 121461>>, <<121476, 121476>>, <<121499, 121503>>, <<121505, 121519>>, <<122880, 122886>>,
    <<122888, 122904>>, <<122907, 122913>>, <<122915, 122916>>, <<122918, 122922>>, <<123184, 123197>>, <<123566, 123566>>,
    <<123628, 123631>>, <<125136, 125142>>, <<125252, 125259>>, <<127995, 127999>>, <<917505, 917505>>, <<917536, 917631>>,
    <<917760, 917999>>
    >>

\* GREEK CAPITAL LETTER SIGMA, its two lower cases, and LATIN CAPITAL
\* LETTER I WITH DOT ABOVE with its lower case of two characters.
CapitalSigma == 931
FinalSmallSigma == 962
SmallSigma == 963
CapitalIWithDot == 304
SmallIWithDot == <<105, 775>>

(* --------------------------- string functions --------------------------- *)
\* The lower case of a character whose lower case is one character.  The
\* ASCII characters are decided without the table.
LowerChar(c) ==
    IF c < 128 THEN (IF 65 <= c /\ c <= 90 THEN c + 32 ELSE c)
    ELSE IF \E k \in DOMAIN LowerRules :
                /\ LowerRules[k][1] <= c /\ c <= LowerRules[k][2]
                /\ (c - LowerRules[k][1]) % LowerRules[k][3] = 0
    THEN c + LowerRules[CHOOSE k \in DOMAIN LowerRules :
                    /\ LowerRules[k][1] <= c /\ c <= LowerRules[k][2]
                    /\ (c - LowerRules[k][1]) % LowerRules[k][3] = 0][4]
    ELSE c

IsCased(c) == InRanges(c, CasedRanges)
IsCaseIgnorable(c) == InRanges(c, CaseIgnorableRanges)

\* A capital sigma at position i is lowered to the final sigma when the
\* nearest character before it that is not case-ignorable is cased and the
\* nearest such character after it, if any, is not.
FinalSigma(s, i) ==
    LET before == {j \in 1..(i - 1) : ~IsCaseIgnorable(s[j])}
        after == {j \in (i + 1)..Len(s) : ~IsCaseIgnorable(s[j])}
    IN  /\ before # {}
        /\ IsCased(s[CHOOSE j \in before : \A k \in before : k <= j])
        /\ \/ after = {}
           \/ ~IsCased(s[CHOOSE j \in after : \A k \in after : j <= k])

\* The lower case of the character at position i of s.
LowerAt(s, i) ==
    IF s[i] = CapitalSigma
    THEN <<IF FinalSigma(s, i) THEN FinalSmallSigma ELSE SmallSigma>>
    ELSE IF s[i] = CapitalIWithDot THEN SmallIWithDot
    ELSE <<LowerChar(s[i])>>

RECURSIVE LowerFrom(_, _)
LowerFrom(s, i) ==
    IF i > Len(s) THEN <<>> ELSE LowerAt(s, i) \o LowerFrom(s, i + 1)

\* str.lower()
Lower(s) == LowerFrom(s, 1)

\* a in b, for strings a and b
IsSubstring(a, b) ==
    \E i \in 0..(Len(b) - Len(a)) : SubSeq(b, i + 1, i + Len(a)) = a

\* x in list, for a list of strings
InList(x, list) == \E i \in DOMAIN list : list[i] = x

\* s without its leading and trailing characters of the set ws
StripOf(s, ws) ==
    LET kept == {i \in DOMAIN s : s[i] \notin ws}
    IN  IF kept = {} THEN <<>>
        ELSE SubSeq(s, CHOOSE i \in kept : \A j \in kept : i <= j,
                       CHOOSE i \in kept : \A j \in kept : j <= i)

\* str.strip()
Strip(s) == StripOf(s, Whitespace)

\* str.split(sep) for a one-character separator
RECURSIVE Split(_, _)
Split(s, sep) ==
    IF \E i \in DOMAIN s : s[i] = sep
    THEN LET i == CHOOSE i \in DOMAIN s :
                      s[i] = sep /\ \A j \in 1..(i - 1) : s[j] # sep
         IN  <<SubSeq(s, 1, i - 1)>> \o Split(SubSeq(s, i + 1, Len(s)), sep)
    ELSE <<s>>

\* str.split() without arguments: the maximal runs of non-whitespace
RECURSIVE SplitWhitespace(_)
SplitWhitespace(s) ==
    LET starts == {i \in DOMAIN s : s[i] \notin Whitespace}
    IN  IF starts = {} THEN <<>>
        ELSE LET b == CHOOSE i \in starts : \A j \in starts : i <= j
                 ends == {i \in b..Len(s) : s[i] \in Whitespace}
                 n == IF ends = {} THEN Len(s) + 1
                      ELSE CHOOSE i \in ends : \A j \in ends : i <= j
             IN  <<SubSeq(s, b, n - 1)>>
                 \o SplitWhitespace(SubSeq(s, n, Len(s)))

\* [label.strip() for label in arg.split(',')]
ParseLabelList(arg) ==
    LET parts == Split(arg, Comma) IN [i \in DOMAIN parts |-> Strip(parts[i])]

\* The value of a character as a decimal digit of any digit system, -1
\* when it is none.
DecimalDigit(c) ==
    IF \E z \in DecimalZeros : z <= c /\ c <= z + 9
    THEN c - (CHOOSE z \in DecimalZeros : z <= c /\ c <= z + 9)
    ELSE -1

\* What int() makes of a character before it reads the number: ASCII
\* stays, other whitespace becomes ' ', other decimal digits become ASCII
\* digits, anything else becomes '?'.
ToAsciiChar(c) ==
    IF c < 127 THEN c
    ELSE IF c \in Whitespace THEN Space
    ELSE IF DecimalDigit(c) >= 0 THEN DigitZero + DecimalDigit(c)
    ELSE QuestionMark

RECURSIVE DecimalValue(_)
DecimalValue(ds) ==
    IF ds = <<>> THEN 0
    ELSE 10 * DecimalValue(SubSeq(ds, 1, Len(ds) - 1)) + (ds[Len(ds)] - DigitZero)

\* int(s): surrounding whitespace, an optional sign, decimal digits with
\* single underscores between digits, at most MaxStrDigits digits.
\* ok = FALSE stands for ValueError.
ParseInt(s) ==
    LET t == StripOf([i \in DOMAIN s |-> ToAsciiChar(s[i])], IntWhitespace)
        signed == t # <<>> /\ Head(t) \in {PlusSign, MinusSign}
        body == IF signed THEN Tail(t) ELSE t
        digits == SelectSeq(body, LAMBDA c : c \in Digits)
        wellFormed ==
            /\ body # <<>>
            /\ \A i \in DOMAIN body : body[i] \in Digits \cup {Underscore}
            /\ body[1] # Underscore /\ body[Len(body)] # Underscore
            /\ \A i \in 1..(Len(body) - 1) :
                   ~(body[i] = Underscore /\ body[i + 1] = Underscore)
            /\ Len(digits) <= MaxStrDigits
    IN  IF ~wellFormed THEN [ok |-> FALSE, value |-> 0]
        ELSE [ok |-> TRUE,
              value |-> IF signed /\ Head(t) = MinusSign THEN 0 - DecimalValue(digits)
                        ELSE DecimalValue(digits)]

\* re.search('refs/pull/([0-9]+)/merge', s): the leftmost match; group is
\* group(1).  After the prefix the digits run as far as they go (the
\* suffix starts with a character that is no digit).  matched = FALSE
\* stands for the None result.
ReSearch(s) ==
    LET p == Len(RefPrefix)
        q == Len(RefSuffix)
        RunEnd(i) ==
            LET stops == {j \in (i + p)..Len(s) : s[j] \notin Digits}
            IN  IF stops = {} THEN Len(s) + 1
                ELSE CHOOSE j \in stops : \A k \in stops : j <= k
        MatchAt(i) ==
            /\ SubSeq(s, i, i + p - 1) = RefPrefix
            /\ RunEnd(i) > i + p
            /\ RunEnd(i) + q - 1 <= Len(s)
            /\ SubSeq(s, RunEnd(i), RunEnd(i) + q - 1) = RefSuffix
        hits == {i \in 1..(Len(s) - p + 1) : MatchAt(i)}
    IN  IF hits = {} THEN [matched |-> FALSE, group |-> <<>>]
        ELSE LET i == CHOOSE i \in hits : \A o \in hits : i <= o
             IN  [matched |-> TRUE, group |-> SubSeq(s, i + p, RunEnd(i) - 1)]

(* ------------------- messages on the error stream ------------------- *)
ERR_ARG_COUNT == "ERROR: Invalid number of arguments!"
ERR_NO_TOKEN == "ERROR: A token must be provided!"
ERR_ENV_EMPTY == "ERROR: The environmental variable {env_var_name} is empty!"
ERR_BAD_HINT == "ERROR: A valid pull request number input must be defined when triggering on \"pull_request_target\". The pull request number passed was \"{pr_number_str}\"."
ERR_NO_PR_IN_REF == "ERROR: The pull request number could not be extracted from GITHUB_REF = "
ERR_FORK == "ERROR: PRs from forks are only supported when trigger on \"pull_request_target\""
ERR_INVALID_LABELS == "Error! This pull request contains the following invalid labels: "
ERR_NO_VALID_LABEL == "Error! This pull request must contain at least one of these labels: "
ERR_PARITY_CONFLICT == "Error! A \"no parity\" label cannot accompany other parity labels: "
ERR_FORBIDDEN_LABEL == "Error! Label is not allowed to target this repo: "
TRACEBACK == "Traceback (most recent call last):"

(* -------------------------------- state -------------------------------- *)
VARIABLES
    argv, environ,
    pc, exit_status, stdout, stderr, api_calls,
    token, valid_labels, invalid_labels, pr_number_str,
    repo_name, github_ref, github_event_name,
    pr_number, pr, pr_labels,
    pr_valid_labels, pr_invalid_labels, parity_label_conflict, forbidden_label

inputs == <<argv, environ>>
args == <<token, valid_labels, invalid_labels, pr_number_str>>
envs == <<repo_name, github_ref, github_event_name>>
prs == <<pr_number, pr, pr_labels>>
classes == <<pr_valid_labels, pr_invalid_labels, parity_label_conflict, forbidden_label>>
vars == <<inputs, pc, exit_status, stdout, stderr, api_calls, args, envs, prs, classes>>

\* One printed line: the literal text of the message and the value
\* interpolated into it (<<>> when there is none).
Msg(text, arg) == [text |-> text, arg |-> arg]

\* exit_status is -1 while the process runs.  Names the script has not
\* bound yet hold <<>> (FALSE for the flag).
Init ==
    /\ argv \in ArgvSet
    /\ environ \in EnvironSet
    /\ pc = "check_args"
    /\ exit_status = -1
    /\ stdout = <<>>
    /\ stderr = <<>>
    /\ api_calls = <<>>
    /\ token = <<>>
    /\ valid_labels = <<>>
    /\ invalid_labels = <<>>
    /\ pr_number_str = <<>>
    /\ repo_name = <<>>
    /\ github_ref = <<>>
    /\ github_event_name = <<>>
    /\ pr_number = <<>>
    /\ pr = [head |-> <<>>, base |-> <<>>, labels |-> <<>>]
    /\ pr_labels = <<>>
    /\ pr_valid_labels = <<>>
    /\ pr_invalid_labels = <<>>
    /\ parity_label_conflict = FALSE
    /\ forbidden_label = <<>>

(* ------------------------------- actions ------------------------------- *)
\* Variant: only too few arguments are refused.
BadArgCount_TooFew(av) == Len(av) < 6

\* len(sys.argv) != 6
BadArgCount(av) == Len(av) # 6

\* Lines 42-51: argument count and token.
CheckArgs ==
    /\ pc = "check_args"
    /\ IF BadArgCount(argv)
       THEN /\ stderr' = Append(stderr, Msg(ERR_ARG_COUNT, <<>>))
            /\ exit_status' = 1
            /\ pc' = "done"
            /\ UNCHANGED token
       ELSE IF argv[2] = <<>>
       THEN /\ token' = argv[2]
            /\ stderr' = Append(stderr, Msg(ERR_NO_TOKEN, <<>>))
            /\ exit_status' = 1
            /\ pc' = "done"
       ELSE /\ token' = argv[2]
            /\ pc' = "parse_labels"
            /\ UNCHANGED <<stderr, exit_status>>
    /\ UNCHANGED <<inputs, stdout, api_calls, valid_labels, invalid_labels,
                   pr_number_str, envs, prs, classes>>

\* Lines 53-62: the two label lists and the pull request number hint.
ParseLabels ==
    /\ pc = "parse_labels"
    /\ valid_labels' = ParseLabelList(argv[3])
    /\ invalid_labels' = ParseLabelList(argv[4])
    /\ pr_number_str' = argv[5]
    /\ stdout' = stdout \o <<Msg("Valid labels are: ", valid_labels'),
                             Msg("Invalid labels are: ", invalid_labels')>>
    /\ pc' = "get_env_repo"
    /\ UNCHANGED <<inputs, exit_status, stderr, api_calls, token, envs, prs, classes>>

\* os.environ.get(name) is None
EnvMissing(name) == name \notin DOMAIN environ

\* get_env_var(name), lines 10-39, called with echo_value left False: the
\* value is returned, or the error is printed and the process exits.
get_env_var(name, nextpc) ==
    IF EnvMissing(name)
    THEN /\ stderr' = Append(stderr, Msg(ERR_ENV_EMPTY, name))
         /\ exit_status' = 1
         /\ pc' = "done"
    ELSE /\ pc' = nextpc
         /\ UNCHANGED <<stderr, exit_status>>

\* Line 65
GetEnvRepo ==
    /\ pc = "get_env_repo"
    /\ get_env_var(GITHUB_REPOSITORY, "get_env_ref")
    /\ repo_name' = IF EnvMissing(GITHUB_REPOSITORY) THEN repo_name
                    ELSE environ[GITHUB_REPOSITORY]
    /\ UNCHANGED <<inputs, stdout, api_calls, args, github_ref,
                   github_event_name, prs, classes>>

\* Line 66
GetEnvRef ==
    /\ pc = "get_env_ref"
    /\ get_env_var(GITHUB_REF, "get_env_event")
    /\ github_ref' = IF EnvMissing(GITHUB_REF) THEN github_ref
                     ELSE environ[GITHUB_REF]
    /\ UNCHANGED <<inputs, stdout, api_calls, args, repo_name,
                   github_event_name, prs, classes>>

\* Line 67
GetEnvEvent ==
    /\ pc = "get_env_event"
    /\ get_env_var(GITHUB_EVENT_NAME, "get_repo")
    /\ github_event_name' = IF EnvMissing(GITHUB_EVENT_NAME) THEN github_event_name
                            ELSE environ[GITHUB_EVENT_NAME]
    /\ UNCHANGED <<inputs, stdout, api_calls, args, repo_name, github_ref,
                   prs, classes>>

\* Line 70: Github(token).get_repo(repo_name), a call to the remote API.
GetRepo ==
    /\ pc = "get_repo"
    /\ api_calls' = Append(api_calls, "get_repo")
    /\ pc' = "resolve_pr_number"
    /\ UNCHANGED <<inputs, exit_status, stdout, stderr, args, envs, prs, classes>>

\* Variant: the comparison names the wrong event.
IsTargetEvent_Wrong(event) == event = PULL_REQUEST

\* github_event_name == 'pull_request_target' (line 76)
IsTargetEvent(event) == event = PULL_REQUEST_TARGET

\* An exception nobody catches: the interpreter prints the traceback on
\* the error stream and the process ends with status 1.
Traceback(exception) == Msg(TRACEBACK, exception)

\* Lines 76-96: the number comes from the hint on a pull_request_target
\* event and from GITHUB_REF otherwise.  The ValueError of int(hint) and
\* the AttributeError of a search without match are caught and end the
\* run; the ValueError of int() on digits found in GITHUB_REF is not
\* caught.
ResolvePrNumber ==
    /\ pc = "resolve_pr_number"
    /\ IF IsTargetEvent(github_event_name)
       THEN LET r == ParseInt(pr_number_str)
            IN  IF r.ok
                THEN /\ pr_number' = r.value
                     /\ stdout' = Append(stdout, Msg("Pull request number: ", r.value))
                     /\ pc' = "get_pull"
                     /\ UNCHANGED <<stderr, exit_status>>
                ELSE /\ stderr' = Append(stderr, Msg(ERR_BAD_HINT, <<>>))
                     /\ exit_status' = 1
                     /\ pc' = "done"
                     /\ UNCHANGED <<pr_number, stdout>>
       ELSE LET m == ReSearch(github_ref)
                r == ParseInt(m.group)
            IN  IF m.matched /\ r.ok
                THEN /\ pr_number' = r.value
                     /\ stdout' = Append(stdout, Msg("Pull request number: ", r.value))
                     /\ pc' = "get_pull"
                     /\ UNCHANGED <<stderr, exit_status>>
                ELSE IF m.matched
                THEN /\ stderr' = Append(stderr, Traceback("ValueError"))
                     /\ exit_status' = 1
                     /\ pc' = "done"
                     /\ UNCHANGED <<pr_number, stdout>>
                ELSE /\ stderr' = Append(stderr, Msg(ERR_NO_PR_IN_REF, github_ref))
                     /\ exit_status' = 1
                     /\ pc' = "done"
                     /\ UNCHANGED <<pr_number, stdout>>
    /\ UNCHANGED <<inputs, api_calls, args, envs, pr, pr_labels, classes>>

\* Line 99: repo.get_pull(pr_number); the remote side answers with the
\* pull request's head and base repositories and its labels.
GetPull ==
    /\ pc = "get_pull"
    /\ \E h \in RepoFullNames, b \in RepoFullNames, ls \in LabelListings :
           pr' = [head |-> h, base |-> b, labels |-> ls]
    /\ api_calls' = Append(api_calls, "get_pull")
    /\ pc' = "fork_check"
    /\ UNCHANGED <<inputs, exit_status, stdout, stderr, args, envs,
                   pr_number, pr_labels, classes>>

\* Variant: the event name is not consulted.
ForkRejected_AnyEvent(head, base, event) == head # base

\* Lines 103-104: a pull request from a fork under another event than
\* pull_request_target.
ForkRejected(head, base, event) == head # base /\ event # PULL_REQUEST_TARGET

\* Lines 101-107
ForkCheck ==
    /\ pc = "fork_check"
    /\ IF ForkRejected(pr.head, pr.base, github_event_name)
       THEN /\ stderr' = Append(stderr, Msg(ERR_FORK, <<>>))
            /\ exit_status' = 1
            /\ pc' = "done"
       ELSE /\ pc' = "get_labels"
            /\ UNCHANGED <<stderr, exit_status>>
    /\ UNCHANGED <<inputs, stdout, api_calls, args, envs, prs, classes>>

\* Line 110: pr.get_labels()
GetLabels ==
    /\ pc = "get_labels"
    /\ pr_labels' = pr.labels
    /\ api_calls' = Append(api_calls, "get_labels")
    /\ pc' = "classify"
    /\ UNCHANGED <<inputs, exit_status, stdout, stderr, args, envs,
                   pr_number, pr, classes>>

\* The names of a sequence of label objects.
Names(labels) == [i \in DOMAIN labels |-> labels[i].name]

\* Variant: only the first entry of the valid list is compared.
PrValidLabels_FirstOnly(labels, valid) ==
    SelectSeq(Names(labels), LAMBDA n : valid # <<>> /\ valid[1] = n)

\* Lines 120-122: the names of the labels that are in the valid list.
PrValidLabels(labels, valid) ==
    SelectSeq(Names(labels), LAMBDA n : InList(n, valid))

\* Variant: a label that is also in the valid list is not collected.
PrInvalidLabels_SkipValid(labels, invalid) ==
    SelectSeq(Names(labels), LAMBDA n : InList(n, invalid) /\ ~InList(n, valid_labels))

\* Lines 120, 123-124: the names of the labels that are in the invalid list.
PrInvalidLabels(labels, invalid) ==
    SelectSeq(Names(labels), LAMBDA n : InList(n, invalid))

\* Lines 112-124
Classify ==
    /\ pc = "classify"
    /\ pr_valid_labels' = PrValidLabels(pr_labels, valid_labels)
    /\ pr_invalid_labels' = PrInvalidLabels(pr_labels, invalid_labels)
    /\ pc' = "invalid_check"
    /\ UNCHANGED <<inputs, exit_status, stdout, stderr, api_calls, args, envs,
                   prs, parity_label_conflict, forbidden_label>>

\* Lines 134-142
InvalidCheck ==
    /\ pc = "invalid_check"
    /\ IF pr_invalid_labels # <<>>
       THEN /\ stderr' = Append(stderr, Msg(ERR_INVALID_LABELS, pr_invalid_labels))
            /\ stdout' = Append(stdout, Msg("Exiting with an error code", <<>>))
            /\ exit_status' = 1
            /\ pc' = "done"
       ELSE /\ stdout' = Append(stdout, Msg("This pull request does not contain invalid labels", <<>>))
            /\ pc' = "valid_check"
            /\ UNCHANGED <<stderr, exit_status>>
    /\ UNCHANGED <<inputs, api_calls, args, envs, prs, classes>>

\* Lines 144-152: without a valid label the run ends here; otherwise the
\* else branch (lines 153-188) is entered.
ValidCheck ==
    /\ pc = "valid_check"
    /\ IF pr_valid_labels = <<>>
       THEN /\ stderr' = Append(stderr, Msg(ERR_NO_VALID_LABEL, valid_labels))
            /\ stdout' = Append(stdout, Msg("Exiting with an error code", <<>>))
            /\ exit_status' = 1
            /\ pc' = "done"
       ELSE /\ pc' = "parity_check"
            /\ UNCHANGED <<stdout, stderr, exit_status>>
    /\ UNCHANGED <<inputs, api_calls, args, envs, prs, classes>>

\* The elements of pr_valid_labels are str objects (line 122 appends
\* label.name); these are the attributes of str the script refers to that
\* str has.
StrHasAttr(a) == a \in {"strip", "split", "lower"}

\* Lines 154-157: the loop over pr_valid_labels.  Its body evaluates
\* label.name on a str in its first iteration.  raised is the exception
\* that leaves the loop ("" for none), conflict the flag after the loop.
ParityLoop(labels) ==
    IF labels = <<>> THEN [raised |-> "", conflict |-> FALSE]
    ELSE IF ~StrHasAttr("name")
    THEN [raised |-> "AttributeError", conflict |-> FALSE]
    ELSE [raised |-> "",
          conflict |-> IF \E i \in DOMAIN labels : IsSubstring(NoParity, Lower(labels[i]))
                       THEN Len(labels) > 1 ELSE FALSE]

\* Lines 166-170: the loop that looks for a label whose last word is part
\* of the repository name; the last such label is kept.  label.split()[-1]
\* raises IndexError for a label without a word.
RECURSIVE ForbiddenLoop(_, _, _)
ForbiddenLoop(labels, repo, found) ==
    IF labels = <<>> THEN [raised |-> "", forbidden |-> found]
    ELSE LET words == SplitWhitespace(Head(labels))
         IN  IF words = <<>> THEN [raised |-> "IndexError", forbidden |-> found]
             ELSE ForbiddenLoop(Tail(labels), repo,
                      IF IsSubstring(Lower(words[Len(words)]), Lower(repo))
                      THEN Head(labels) ELSE found)

\* Lines 153-188: the "no parity" rule, the rule on labels that name the
\* repository, and the successful end.
ParityCheck ==
    /\ pc = "parity_check"
    /\ LET p == ParityLoop(pr_valid_labels)
           f == ForbiddenLoop(pr_valid_labels, repo_name, <<>>)
       IN  IF p.raised # ""
           THEN /\ parity_label_conflict' = FALSE
                /\ stderr' = Append(stderr, Traceback(p.raised))
                /\ exit_status' = 1
                /\ UNCHANGED <<stdout, forbidden_label>>
           ELSE IF p.conflict
           THEN /\ parity_label_conflict' = TRUE
                /\ stderr' = Append(stderr, Msg(ERR_PARITY_CONFLICT, pr_valid_labels))
                /\ stdout' = Append(stdout, Msg("Exiting with an error code", <<>>))
                /\ exit_status' = 1
                /\ UNCHANGED forbidden_label
           ELSE IF f.raised # ""
           THEN /\ parity_label_conflict' = FALSE
                /\ forbidden_label' = f.forbidden
                /\ stderr' = Append(stderr, Traceback(f.raised))
                /\ exit_status' = 1
                /\ UNCHANGED stdout
           ELSE IF f.forbidden # <<>>
           THEN /\ parity_label_conflict' = FALSE
                /\ forbidden_label' = f.forbidden
                /\ stderr' = Append(stderr, Msg(ERR_FORBIDDEN_LABEL, f.forbidden))
                /\ stdout' = Append(stdout, Msg("Exiting with an error code", <<>>))
                /\ exit_status' = 1
           ELSE /\ parity_label_conflict' = FALSE
                /\ forbidden_label' = f.forbidden
                /\ stdout' = stdout \o
                       <<Msg("This pull request contains the following valid labels: ", pr_valid_labels)>>
                       \o (IF pr_invalid_labels = <<>> /\ pr_valid_labels # <<>>
                           THEN <<Msg("All labels are OK in this pull request", <<>>),
                                  Msg("Exiting without an error code", <<>>)>>
                           ELSE <<>>)
                /\ exit_status' = 0
                /\ UNCHANGED stderr
    /\ pc' = "done"
    /\ UNCHANGED <<inputs, api_calls, args, envs, prs, pr_valid_labels, pr_invalid_labels>>

Next ==
    \/ CheckArgs
    \/ ParseLabels
    \/ GetEnvRepo
    \/ GetEnvRef
    \/ GetEnvEvent
    \/ GetRepo
    \/ ResolvePrNumber
    \/ GetPull
    \/ ForkCheck
    \/ GetLabels
    \/ Classify
    \/ InvalidCheck
    \/ ValidCheck
    \/ ParityCheck

Spec == Init /\ [][Next]_vars

(* ------------------------------ properties ------------------------------ *)
\* The run has ended.
Done == pc = "done"

\* The remote calls made so far.
Fetched == InList("get_pull", api_calls)
Listed == InList("get_labels", api_calls)

\* A message with this text is on the error stream.
Reported(text) == \E i \in DOMAIN stderr : stderr[i].text = text

\* The texts on the error stream, in order.
ErrorTexts == [i \in DOMAIN stderr |-> stderr[i].text]

\* The inputs as the run was given them.
EnvComplete == EnvNames \subseteq DOMAIN environ
TargetEvent ==
    GITHUB_EVENT_NAME \in DOMAIN environ
    /\ environ[GITHUB_EVENT_NAME] = PULL_REQUEST_TARGET
IsFork == pr.head # pr.base

\* The label names of the fetched pull request that are in a list.
NamesIn(list) ==
    SelectSeq([i \in DOMAIN pr.labels |-> pr.labels[i].name],
              LAMBDA n : \E k \in DOMAIN list : list[k] = n)
HasInvalid == NamesIn(invalid_labels) # <<>>
HasValid == NamesIn(valid_labels) # <<>>

\* Some valid label present contains "no parity" in any letter case and
\* more than one valid label is present.
NoParityConflict ==
    /\ \E i \in DOMAIN NamesIn(valid_labels) :
           IsSubstring(NoParity, Lower(NamesIn(valid_labels)[i]))
    /\ Len(NamesIn(valid_labels)) > 1

\* The last word of some valid label present is, ignoring letter case,
\* part of GITHUB_REPOSITORY.
SelfReference ==
    \E i \in DOMAIN NamesIn(valid_labels) :
        LET words == SplitWhitespace(NamesIn(valid_labels)[i])
        IN  words # <<>>
            /\ IsSubstring(Lower(words[Len(words)]), Lower(environ[GITHUB_REPOSITORY]))

\* C1: a run that reaches label evaluation with a valid label, no invalid
\* label, no "no parity" conflict and no label naming the repository ends
\* with exit status 0.
C1_AcceptedExitsZero ==
    (Done /\ Listed /\ HasValid /\ ~HasInvalid /\ ~NoParityConflict /\ ~SelfReference)
        => exit_status = 0

\* C2: once the labels are listed, a pull request with a label of the
\* invalid list ends with status 1 and the only report names exactly the
\* offending labels, whatever its other labels are.
C2_InvalidLabelFails ==
    (Done /\ Listed /\ HasInvalid)
        => /\ exit_status = 1
           /\ stderr = <<Msg(ERR_INVALID_LABELS, NamesIn(invalid_labels))>>

\* A run ended by a label that is in both lists, on a pull request that
\* also carries a label that is only valid.
C2_Witness ==
    /\ Done /\ Listed /\ exit_status = 1
    /\ Reported(ERR_INVALID_LABELS)
    /\ \E i \in DOMAIN pr.labels :
           InList(pr.labels[i].name, invalid_labels) /\ InList(pr.labels[i].name, valid_labels)
    /\ \E i \in DOMAIN pr.labels :
           ~InList(pr.labels[i].name, invalid_labels) /\ InList(pr.labels[i].name, valid_labels)

\* C3: without an invalid label, the presence check fails (report, status
\* 1) exactly when no label of the pull request is in the valid list; with
\* a valid label neither the invalid-label check nor the presence check
\* reports.
C3_PresenceCheck ==
    (Listed /\ ~HasInvalid /\ (Done \/ pc = "parity_check"))
        => /\ Reported(ERR_NO_VALID_LABEL) <=> ~HasValid
           /\ ~HasValid => (Done /\ exit_status = 1
                            /\ stderr = <<Msg(ERR_NO_VALID_LABEL, valid_labels)>>)
           /\ HasValid => ~Reported(ERR_INVALID_LABELS)

\* Valid list ["a","b"], the pull request carries only "b": both checks
\* have passed.
C3_Witness ==
    /\ pc = "parity_check"
    /\ valid_labels = <<LA, LB>>
    /\ Names(pr.labels) = <<LB>>
    /\ pr_valid_labels = <<LB>>
    /\ stderr = <<>>

\* C4: without an invalid label, the "no parity" rule reports and ends
\* the run with status 1 exactly when a valid label present contains
\* "no parity" and more than one valid label is present.
C4_NoParityRule ==
    (Done /\ Listed /\ ~HasInvalid)
        => /\ Reported(ERR_PARITY_CONFLICT) <=> NoParityConflict
           /\ NoParityConflict => exit_status = 1

\* C5: without an invalid label and without a "no parity" conflict, the
\* self-reference rule reports and ends the run with status 1 exactly
\* when the last word of a valid label present is part of the repository
\* name.
C5_SelfReferenceRule ==
    (Done /\ Listed /\ ~HasInvalid /\ ~NoParityConflict)
        => /\ Reported(ERR_FORBIDDEN_LABEL) <=> SelfReference
           /\ SelfReference => exit_status = 1

\* C6: after the pull request is fetched, the fork rule ends the run with
\* status 1 exactly when head and base differ and the event is not
\* pull_request_target; the labels are then never listed or classified,
\* and a fork under pull_request_target goes on to the label listing.
C6_ForkRule ==
    /\ Reported(ERR_FORK)
         => /\ Done /\ exit_status = 1 /\ Fetched /\ ~Listed
            /\ pr_labels = <<>> /\ pr_valid_labels = <<>> /\ pr_invalid_labels = <<>>
            /\ stderr = <<Msg(ERR_FORK, <<>>)>>
    /\ (Fetched /\ pc \notin {"fork_check"})
         => /\ Reported(ERR_FORK) <=> (IsFork /\ ~TargetEvent)
            /\ (IsFork /\ TargetEvent) => (Listed \/ pc = "get_labels")

\* A fork under the pull_request event, rejected.
C6_Witness ==
    /\ Done /\ Fetched /\ IsFork /\ ~TargetEvent /\ pr.labels # <<>>
    /\ Reported(ERR_FORK) /\ exit_status = 1

\* C7: the number is the hint parsed as an integer exactly under
\* pull_request_target and the digits found in GITHUB_REF otherwise; a run
\* where it cannot be resolved ends with status 1 and fetches neither the
\* pull request nor its labels.
C7_NumberResolution ==
    (InList("get_repo", api_calls) /\ pc # "resolve_pr_number")
        => LET hint == ParseInt(argv[5])
               found == ReSearch(environ[GITHUB_REF])
               number == ParseInt(found.group)
               resolved == IF TargetEvent THEN hint.ok
                           ELSE found.matched /\ number.ok
           IN  /\ resolved
                     => /\ pr_number = IF TargetEvent THEN hint.value ELSE number.value
                        /\ ~Reported(ERR_BAD_HINT) /\ ~Reported(ERR_NO_PR_IN_REF)
               /\ ~resolved
                     => /\ Done /\ exit_status = 1
                        /\ ErrorTexts = <<IF TargetEvent THEN ERR_BAD_HINT
                                          ELSE IF ~found.matched THEN ERR_NO_PR_IN_REF
                                          ELSE TRACEBACK>>
                        /\ api_calls = <<"get_repo">>
                        /\ pr.labels = <<>> /\ pr_labels = <<>>

\* A numeric hint is of no use under the pull_request event when the
\* reference names no pull request.
C7_Witness ==
    /\ Done /\ exit_status = 1
    /\ Reported(ERR_NO_PR_IN_REF)
    /\ argv[5] = Hint1
    /\ ~TargetEvent
    /\ environ[GITHUB_REF] = Ref2
    /\ ~Fetched

\* C8: with a number of arguments other than five, an empty token or a
\* missing environment variable, no remote call is ever made and no label
\* is evaluated, and the run ends with status 1 and the matching
\* configuration error as its only report.
C8_ConfigurationErrors ==
    (Len(argv) # 6 \/ argv[2] = <<>> \/ ~EnvComplete)
        => /\ api_calls = <<>>
           /\ pr_labels = <<>> /\ pr_valid_labels = <<>> /\ pr_invalid_labels = <<>>
           /\ pc \in {"check_args", "parse_labels", "get_env_repo", "get_env_ref",
                      "get_env_event", "done"}
           /\ Done => /\ exit_status = 1
                      /\ ErrorTexts = <<IF Len(argv) # 6 THEN ERR_ARG_COUNT
                                        ELSE IF argv[2] = <<>> THEN ERR_NO_TOKEN
                                        ELSE ERR_ENV_EMPTY>>

\* Six values after the program name: refused before anything else.
C8_Witness ==
    /\ Done /\ exit_status = 1
    /\ Len(argv) = 7 /\ EnvComplete
    /\ ErrorTexts = <<ERR_ARG_COUNT>>
    /\ api_calls = <<>>

\* The messages of the script's own error branches.
OwnErrors ==
    {ERR_ARG_COUNT, ERR_NO_TOKEN, ERR_ENV_EMPTY, ERR_BAD_HINT, ERR_NO_PR_IN_REF,
     ERR_FORK, ERR_INVALID_LABELS, ERR_NO_VALID_LABEL, ERR_PARITY_CONFLICT,
     ERR_FORBIDDEN_LABEL}

\* C9: a run ends with status 0 or 1, and one that ends with status 1 has
\* written one of the script's own error messages last.
C9_FailuresAreReported ==
    Done => /\ exit_status \in {0, 1}
            /\ exit_status = 1
                 => /\ stderr # <<>>
                    /\ stderr[Len(stderr)].text \in OwnErrors

\* C10: the label rules apply in the order invalid label, missing valid
\* label, "no parity" conflict, self-reference; the report of a run in
\* which some rule triggers is that of the first such rule and no other.
C10_FirstRuleReported ==
    (Done /\ Listed /\ (HasInvalid \/ ~HasValid \/ NoParityConflict \/ SelfReference))
        => ErrorTexts = <<IF HasInvalid THEN ERR_INVALID_LABELS
                          ELSE IF ~HasValid THEN ERR_NO_VALID_LABEL
                          ELSE IF NoParityConflict THEN ERR_PARITY_CONFLICT
                          ELSE ERR_FORBIDDEN_LABEL>>
=============================================================================
